---- MODULE Spec2Model ----
(***************************************************************************)
(* A model of the calib calendar: the Event value with its validating      *)
(* mutators (src/src/event.rs) and the EventCalendar container with its    *)
(* identifier map and ordered set (src/src/cal.rs).                        *)
(*                                                                         *)
(* Time.  chrono's NaiveDateTime is a calendar date plus a time of day     *)
(* with sub-second resolution.  A timestamp is modelled as a number of     *)
(* ticks since 00:00:00 of date 0; a second is SubPerSec ticks and a day   *)
(* is SecsPerDay seconds.  A NaiveTime is a tick of the day, a NaiveDate   *)
(* a day number.                                                           *)
(***************************************************************************)
EXTENDS Integers, Sequences, FiniteSets, TLC

\* ---------------------------------------------------------------- bounds
\* dates are 0 .. MaxDate
MaxDate == 1
\* seconds in a (scaled-down) day
SecsPerDay == 2
\* ticks in a second: the resolution of the date-time type
SubPerSec == 2
\* add_event calls made on one calendar
MaxEvents == 3
\* the largest whole second of an Event handed to the calendar
MaxCalSec == 2

TicksPerDay == SecsPerDay * SubPerSec
Dates == 0 .. MaxDate
Times == 0 .. (TicksPerDay - 1)
Timestamps == 0 .. ((MaxDate + 1) * TicksPerDay - 1)
\* Strings, as sequences of letters
Names == {<<1, 2>>, <<2>>}
\* Uuids
Ids == {1, 2}

\* ------------------------------------------------------- date-time library
\* NaiveDateTime::new(date, time)
NaiveDateTimeNew(date, time) == date * TicksPerDay + time
\* NaiveDateTime::date()
DateOf(ts) == ts \div TicksPerDay
\* NaiveDateTime::time()
TimeOf(ts) == ts % TicksPerDay
\* end.signed_duration_since(st): a signed number of ticks
signed_duration_since(end, st) == end - st
\* Duration::num_seconds(): the whole seconds of a duration, truncated
\* towards zero
num_seconds(d) == IF d < 0 THEN 0 - ((0 - d) \div SubPerSec) ELSE d \div SubPerSec
\* 00:00:00
day_start == 0
\* 23:59:59, the last whole second of the day
day_end == (SecsPerDay - 1) * SubPerSec

\* ------------------------------------------------------------------ Event
\* Option<T> is a sequence of length 0 (None) or 1 (Some)
None == <<>>
Some(x) == <<x>>

MkEvent(start, end, name, id) ==
    [start |-> start, end |-> end, name |-> name, id |-> id]

Ok(e) == [ok |-> TRUE, ev |-> Some(e), err |-> "None"]
Err(kind) == [ok |-> FALSE, ev |-> None, err |-> kind]

Mut_valid_nonneg(st, end) == num_seconds(signed_duration_since(end, st)) >= 0
\* Event::start_end_times_valid
start_end_times_valid(st, end) == num_seconds(signed_duration_since(end, st)) > 0

\* Event::new; id is the value Uuid::new_v4() produced
EventNew(name, date, id) ==
    MkEvent(NaiveDateTimeNew(date, day_start), NaiveDateTimeNew(date, day_end), name, id)

Mut_set_start_swapped(self, start) ==
    IF start_end_times_valid(self.end, start)
    THEN Ok([self EXCEPT !.start = start])
    ELSE Err("InvalidStartTime")
\* Event::set_start
set_start(self, start) ==
    IF start_end_times_valid(start, self.end)
    THEN Ok([self EXCEPT !.start = start])
    ELSE Err("InvalidStartTime")

Mut_set_start_time_wrong_err(self, start) ==
    LET new_start == NaiveDateTimeNew(DateOf(self.start), start)
    IN  IF start_end_times_valid(new_start, self.end)
        THEN Ok([self EXCEPT !.start = new_start])
        ELSE Err("InvalidEndTime")
\* Event::set_start_time
set_start_time(self, start) ==
    LET new_start == NaiveDateTimeNew(DateOf(self.start), start)
    IN  IF start_end_times_valid(new_start, self.end)
        THEN Ok([self EXCEPT !.start = new_start])
        ELSE Err("InvalidStartTime")

\* Event::set_start_date
set_start_date(self, start) ==
    LET new_start == NaiveDateTimeNew(start, TimeOf(self.start))
    IN  IF start_end_times_valid(new_start, self.end)
        THEN Ok([self EXCEPT !.start = new_start])
        ELSE Err("InvalidStartTime")

\* Event::set_end
set_end(self, end) ==
    IF start_end_times_valid(self.start, end)
    THEN Ok([self EXCEPT !.end = end])
    ELSE Err("InvalidEndTime")

\* Event::set_end_time
set_end_time(self, end) ==
    LET new_end == NaiveDateTimeNew(DateOf(self.end), end)
    IN  IF start_end_times_valid(self.start, new_end)
        THEN Ok([self EXCEPT !.end = new_end])
        ELSE Err("InvalidEndTime")

\* Event::set_end_date
set_end_date(self, end) ==
    LET new_end == NaiveDateTimeNew(end, TimeOf(self.end))
    IN  IF start_end_times_valid(self.start, new_end)
        THEN Ok([self EXCEPT !.end = new_end])
        ELSE Err("InvalidEndTime")

\* Event::set_name
set_name(self, new_name) == [self EXCEPT !.name = new_name]

\* ---------------------------------------------------------- Event's order
\* Ordering of String: lexicographic, a proper prefix first
RECURSIVE StrCmp(_, _)
StrCmp(a, b) ==
    IF a = <<>> /\ b = <<>> THEN "Equal"
    ELSE IF a = <<>> THEN "Less"
    ELSE IF b = <<>> THEN "Greater"
    ELSE IF a[1] < b[1] THEN "Less"
    ELSE IF a[1] > b[1] THEN "Greater"
    ELSE StrCmp(Tail(a), Tail(b))

\* Ordering of NaiveDateTime and of Uuid
IntCmp(a, b) == IF a < b THEN "Less" ELSE IF a > b THEN "Greater" ELSE "Equal"

Mut_EventCmp_name_first(a, b) ==
    IF IntCmp(a.start, b.start) # "Equal" THEN IntCmp(a.start, b.start)
    ELSE IF StrCmp(a.name, b.name) # "Equal" THEN StrCmp(a.name, b.name)
    ELSE IF IntCmp(a.end, b.end) # "Equal" THEN IntCmp(a.end, b.end)
    ELSE IntCmp(a.id, b.id)
\* #[derive(PartialOrd, Ord)] on Event: the fields in declaration order
EventCmp(a, b) ==
    IF IntCmp(a.start, b.start) # "Equal" THEN IntCmp(a.start, b.start)
    ELSE IF IntCmp(a.end, b.end) # "Equal" THEN IntCmp(a.end, b.end)
    ELSE IF StrCmp(a.name, b.name) # "Equal" THEN StrCmp(a.name, b.name)
    ELSE IntCmp(a.id, b.id)

\* ---------------------------------------------------------- EventCalendar
Mut_BTreeMapInsert_keep_old(m, k, v) ==
    [x \in DOMAIN m \cup {k} |-> IF x \in DOMAIN m THEN m[x] ELSE v]
\* BTreeMap::insert: the value of a key already present is replaced
BTreeMapInsert(m, k, v) ==
    [x \in DOMAIN m \cup {k} |-> IF x = k THEN v ELSE m[x]]

\* BTreeMap::get
BTreeMapGet(m, k) == IF k \in DOMAIN m THEN Some(m[k]) ELSE None

\* BTreeSet::insert on the set whose ascending iteration is s: a value that
\* compares Equal to a member is not inserted and false is returned,
\* otherwise it goes after the members that compare Less and true is
\* returned
BTreeSetInsert(s, e) ==
    IF \E i \in 1 .. Len(s) : EventCmp(s[i], e) = "Equal"
    THEN [set |-> s, new |-> FALSE]
    ELSE LET n == Cardinality({i \in 1 .. Len(s) : EventCmp(s[i], e) = "Less"})
         IN  [set |-> SubSeq(s, 1, n) \o <<e>> \o SubSeq(s, n + 1, Len(s)),
              new |-> TRUE]

Mut_in_range_both(evt, start, end) ==
    (evt.start >= start /\ evt.start <= end) /\ (evt.end >= start /\ evt.end <= end)
\* the filter closure of EventCalendar::events_in_range
in_range(evt, start, end) ==
    (evt.start >= start /\ evt.start <= end) \/ (evt.end >= start /\ evt.end <= end)

\* --------------------------------------------------- the caller's Event
\* cur    the Event the caller holds: None before Event::new and after a
\*        mutator consumed it and returned an error
\* last   the last call: its name, its argument, the Event it was applied
\*        to and its outcome ("Ok" or the EventError)
\* trip   the arguments of the calls made since the last Event::new while
\*        they are a prefix of Event::new(name, d).set_start(s).set_end(e):
\*        <<d>>, <<d, s>> or <<d, s, e>>, and <<>> otherwise
\* ids    EventCalendar.ids, a map from Uuid to Event
\* evts   EventCalendar.evts, the ordered set, as its iteration sequence
\* log    the Events handed to add_event, in call order
\* ret    what each add_event call returned, in call order
VARIABLES cur, last, trip, ids, evts, log, ret

evVars == <<cur, last, trip>>
calVars == <<ids, evts, log, ret>>
vars == <<cur, last, trip, ids, evts, log, ret>>

\* trip after the call op(arg)
Extend(t, op, arg) ==
    IF \/ op = "set_start" /\ Len(t) = 1
       \/ op = "set_end" /\ Len(t) = 2
    THEN Append(t, arg)
    ELSE <<>>

InitEvent ==
    /\ cur = None
    /\ last = [op |-> "none", arg |-> 0, pre |-> None, res |-> "None"]
    /\ trip = <<>>

\* let e = Event::new(name, &date)
New(name, date, id) ==
    /\ cur' = Some(EventNew(name, date, id))
    /\ last' = [op |-> "new", arg |-> date, pre |-> None, res |-> "Ok"]
    /\ trip' = <<date>>
    /\ UNCHANGED calVars

\* the caller replaces its Event by the Result of a consuming mutator
Consume(op, arg, r) ==
    /\ cur' = r.ev
    /\ last' = [op |-> op, arg |-> arg, pre |-> cur, res |-> IF r.ok THEN "Ok" ELSE r.err]
    /\ trip' = Extend(trip, op, arg)
    /\ UNCHANGED calVars

SetStart(start) ==
    /\ cur # None
    /\ Consume("set_start", start, set_start(cur[1], start))

SetStartTime(start) ==
    /\ cur # None
    /\ Consume("set_start_time", start, set_start_time(cur[1], start))

SetStartDate(start) ==
    /\ cur # None
    /\ Consume("set_start_date", start, set_start_date(cur[1], start))

SetEnd(end) ==
    /\ cur # None
    /\ Consume("set_end", end, set_end(cur[1], end))

SetEndTime(end) ==
    /\ cur # None
    /\ Consume("set_end_time", end, set_end_time(cur[1], end))

SetEndDate(end) ==
    /\ cur # None
    /\ Consume("set_end_date", end, set_end_date(cur[1], end))

\* e.set_name(new_name), in place
SetName(new_name) ==
    /\ cur # None
    /\ cur' = Some(set_name(cur[1], new_name))
    /\ last' = [op |-> "set_name", arg |-> new_name, pre |-> cur, res |-> "Ok"]
    /\ trip' = Extend(trip, "set_name", new_name)
    /\ UNCHANGED calVars

InitCal ==
    /\ ids = <<>>
    /\ evts = <<>>
    /\ log = <<>>
    /\ ret = <<>>


\* the Events handed to add_event: valid Events on whole seconds
CalStamps == {sec * SubPerSec : sec \in 0 .. MaxCalSec}
CalEvents ==
    {e \in [start : CalStamps, end : CalStamps, name : Names, id : Ids] :
        start_end_times_valid(e.start, e.end)}

\* EventCalendar::add_event
add_event(event) ==
    /\ Len(log) < MaxEvents
    /\ LET id == event.id
           r == BTreeSetInsert(evts, event)
       IN  /\ ids' = BTreeMapInsert(ids, id, event)
           /\ evts' = r.set
           /\ ret' = Append(ret, r.new)
    /\ log' = Append(log, event)
    /\ UNCHANGED evVars

\* EventCalendar::events_in_range, as the sequence the iterator yields
events_in_range(start, end) ==
    SelectSeq(evts, LAMBDA evt : in_range(evt, start, end))

\* EventCalendar::first_event
first_event == IF evts = <<>> THEN None ELSE Some(evts[1])

\* EventCalendar::get
get(id) == BTreeMapGet(ids, id)

Init == InitEvent /\ InitCal

NextEvent ==
    \/ \E name \in Names, date \in Dates, id \in Ids : New(name, date, id)
    \/ \E start \in Timestamps : SetStart(start)
    \/ \E start \in Times : SetStartTime(start)
    \/ \E start \in Dates : SetStartDate(start)
    \/ \E end \in Timestamps : SetEnd(end)
    \/ \E end \in Times : SetEndTime(end)
    \/ \E end \in Dates : SetEndDate(end)
    \/ \E new_name \in Names : SetName(new_name)

SpecEvent == Init /\ [][NextEvent]_vars

NextCal == \E event \in CalEvents : add_event(event)

SpecCal == Init /\ [][NextCal]_vars

\* ------------------------------------------------- properties of Event
StartOps == {"set_start", "set_start_time", "set_start_date"}
EndOps == {"set_end", "set_end_time", "set_end_date"}

\* The candidate timestamp of the last call, as the mutators' contract
\* states it: the argument itself, the existing date with the new time of
\* day, or the new date with the existing time of day.
Candidate ==
    LET old == IF last.op \in StartOps THEN last.pre[1].start ELSE last.pre[1].end
    IN  CASE last.op \in {"set_start", "set_end"} -> last.arg
          [] last.op \in {"set_start_time", "set_end_time"} ->
                (old \div TicksPerDay) * TicksPerDay + last.arg
          [] last.op \in {"set_start_date", "set_end_date"} ->
                last.arg * TicksPerDay + (old % TicksPerDay)

\* C1: every Event the caller can hold has end strictly after start, and a
\* failed mutator leaves the caller an error and no Event.
C1_EndAfterStart ==
    /\ cur # None => cur[1].end > cur[1].start
    /\ last.res \in {"InvalidStartTime", "InvalidEndTime"} => cur = None

\* C1 witness: a mutator succeeded and changed a bound of the Event.
C1_Witness ==
    /\ last.op \in StartOps \cup EndOps
    /\ last.res = "Ok"
    /\ cur # None
    /\ <<cur[1].start, cur[1].end>> # <<last.pre[1].start, last.pre[1].end>>

\* C7 as stated: for every date d and every start < end,
\* Event::new(name, d).set_start(start) succeeds, set_end(end) on its
\* result succeeds, and the result has that start and that end.  It is
\* stated here for timestamps of whole seconds only, where the truncation
\* to seconds in start_end_times_valid (C10) plays no part.
WholeSecond(ts) == ts % SubPerSec = 0
C7_RoundTripAnyPair ==
    /\ (/\ Len(trip) = 2
        /\ WholeSecond(trip[2])
        /\ \E end \in Timestamps : WholeSecond(end) /\ end > trip[2]) => last.res = "Ok"
    /\ (Len(trip) = 3 /\ WholeSecond(trip[2]) /\ WholeSecond(trip[3]) /\ trip[3] > trip[2]) =>
           /\ last.res = "Ok"
           /\ cur # None
           /\ cur[1].start = trip[2]
           /\ cur[1].end = trip[3]

\* C7 amended: the chain succeeds and round-trips when start is at least
\* one whole second before 23:59:59 of d and end is at least one whole
\* second after start.
C7_RoundTripWithinDay ==
    /\ (Len(trip) = 2 /\ (trip[1] * TicksPerDay + day_end) - trip[2] >= SubPerSec) =>
           /\ last.res = "Ok"
           /\ cur # None
           /\ cur[1].start = trip[2]
    /\ (Len(trip) = 3 /\ trip[3] - trip[2] >= SubPerSec) =>
           /\ last.res = "Ok"
           /\ cur # None
           /\ cur[1].start = trip[2]
           /\ cur[1].end = trip[3]

\* C7 witness: the chain ran to its end and moved both bounds off the
\* defaults of Event::new.
C7_Witness ==
    /\ Len(trip) = 3
    /\ last.res = "Ok"
    /\ cur # None
    /\ cur[1].start = trip[2]
    /\ cur[1].end = trip[3]
    /\ trip[2] # trip[1] * TicksPerDay + day_start
    /\ trip[3] # trip[1] * TicksPerDay + day_end

\* C8: a start mutator whose candidate is not strictly before the end
\* returns InvalidStartTime, an end mutator whose candidate is not strictly
\* after the start returns InvalidEndTime, and neither produces an Event.
C8_ErrorKinds ==
    /\ (last.op \in StartOps /\ Candidate >= last.pre[1].end) =>
           (last.res = "InvalidStartTime" /\ cur = None)
    /\ (last.op \in EndOps /\ Candidate <= last.pre[1].start) =>
           (last.res = "InvalidEndTime" /\ cur = None)

\* C8 witness: set_start_time was given the time of day that makes the
\* candidate start equal to the end.
C8_Witness ==
    /\ last.op = "set_start_time"
    /\ Candidate = last.pre[1].end
    /\ last.res = "InvalidStartTime"
    /\ cur = None

\* C10 as stated: each of the six mutators succeeds if and only if the
\* candidate end is strictly after the candidate start, also when they are
\* less than one second apart.
C10_ValidIffStrictlyAfter ==
    /\ last.op \in StartOps => (last.res = "Ok" <=> last.pre[1].end > Candidate)
    /\ last.op \in EndOps => (last.res = "Ok" <=> Candidate > last.pre[1].start)

\* ----------------------------------------- properties of EventCalendar
\* the Events added so far, and those added with identifier id
Added == {log[i] : i \in 1 .. Len(log)}
AddedAt(id) == {i \in 1 .. Len(log) : log[i].id = id}
Stored == {evts[i] : i \in 1 .. Len(evts)}
Max(S) == CHOOSE x \in S : \A y \in S : y <= x

\* the order (start, end, name, id) of the data model, strict
Before(a, b) ==
    \/ a.start < b.start
    \/ a.start = b.start /\ a.end < b.end
    \/ a.start = b.start /\ a.end = b.end /\ StrCmp(a.name, b.name) = "Less"
    \/ a.start = b.start /\ a.end = b.end /\ a.name = b.name /\ a.id < b.id

\* C2: the identifier mapping and the sorted set hold the same Events:
\* every Event of the mapping is in the set, and every Event of the set is
\* the one stored under its id in the mapping.
C2_ViewsAgree ==
    /\ \A id \in DOMAIN ids : ids[id] \in Stored
    /\ \A e \in Stored : e.id \in DOMAIN ids /\ ids[e.id] = e

\* C3: an add_event call returns true iff no earlier call added an Event
\* with the same identifier.
C3_TrueOncePerId ==
    \A i \in 1 .. Len(log) :
        ret[i] = (\A j \in 1 .. (i - 1) : log[j].id # log[i].id)

\* C4: get(id) is the most recently added Event with that identifier, and
\* is empty iff none was added.
C4_GetLatest ==
    \A id \in Ids :
        /\ get(id) = None <=> AddedAt(id) = {}
        /\ AddedAt(id) # {} => get(id) = Some(log[Max(AddedAt(id))])

\* C4 witness: an identifier was added twice with different fields and get
\* returns the second Event.
C4_Witness ==
    \E i, j \in 1 .. Len(log) :
        /\ i < j
        /\ log[i].id = log[j].id
        /\ log[i] # log[j]
        /\ j = Max(AddedAt(log[j].id))
        /\ get(log[j].id) = Some(log[j])

\* C5: for every window, events_in_range yields exactly the added Events
\* whose start or whose end lies in the window, each once, in ascending
\* order of (start, end, name, id).
C5_RangeExactSorted ==
    \A ws \in CalStamps, we \in CalStamps :
        LET r == events_in_range(ws, we)
        IN  /\ {r[i] : i \in 1 .. Len(r)} =
                   {e \in Added : \/ ws <= e.start /\ e.start <= we
                                  \/ ws <= e.end /\ e.end <= we}
            /\ \A i \in 1 .. (Len(r) - 1) : Before(r[i], r[i + 1])

\* C5 witness: some window is spanned by an added Event, which is left
\* out, while two Events that were added in descending order are yielded.
C5_Witness ==
    \E ws \in CalStamps, we \in CalStamps :
        LET r == events_in_range(ws, we)
        IN  /\ \E e \in Added : e.start < ws /\ we < e.end
            /\ Len(r) >= 2
            /\ \E i, j \in 1 .. Len(log) :
                   /\ i < j
                   /\ Before(log[j], log[i])
                   /\ \E k \in 1 .. (Len(r) - 1) : r[k] = log[j] /\ r[k + 1] = log[i]

\* C6: first_event is empty iff nothing was added, and otherwise is the
\* added Event that is least in the order (start, end, name, id).
C6_FirstIsLeast ==
    /\ first_event = None <=> log = <<>>
    /\ log # <<>> =>
           /\ first_event[1] \in Added
           /\ \A e \in Added : e = first_event[1] \/ Before(first_event[1], e)

\* C6 witness: the least Event was added last and ties with an earlier one
\* on start.
C6_Witness ==
    /\ Len(log) >= 2
    /\ first_event = Some(log[Len(log)])
    /\ \E i \in 1 .. (Len(log) - 1) :
           /\ log[i].start = log[Len(log)].start
           /\ log[i].end # log[Len(log)].end

\* C9: an Event observable through get(id), or through events_in_range
\* over some window, stays observable through the same operation after
\* every further add_event call.
C9_NeverReplaced ==
    [][/\ \A id \in Ids :
              BTreeMapGet(ids, id) # None => BTreeMapGet(ids', id) = BTreeMapGet(ids, id)
       /\ \A ws \in CalStamps, we \in CalStamps :
              \A i \in 1 .. Len(evts) :
                  in_range(evts[i], ws, we) =>
                      \E j \in 1 .. Len(evts') :
                          evts'[j] = evts[i] /\ in_range(evts'[j], ws, we)]_vars

====
